---------------------------- MODULE Spec2Model ----------------------------
(***************************************************************************)
(* Model of src/src/pages/Mensagens.tsx: the message composition page.     *)
(*                                                                         *)
(* Strings are sequences of one-character strings, so that the regular     *)
(* expressions of the page (placeholder extraction, substitution, phone    *)
(* normalisation) are computed character by character as the engine does.  *)
(* A nullable value (T | null) is a sequence of length 0 (null) or 1.      *)
(*                                                                         *)
(* One action is one event of the page processed to completion: the        *)
(* handler, the re-render it causes and the effects React runs after that  *)
(* render.                                                                 *)
(***************************************************************************)
EXTENDS Integers, Sequences, FiniteSets, Bags, TLC

VARIABLES
    server,            \* the backing store the page reads (supabase tables)
    clientes,          \* useState, line 59
    templates,         \* useState, line 60
    processos,         \* useState, line 61
    selectedCliente,   \* useState, line 62 (nullable)
    selectedTemplate,  \* useState, line 65 (nullable)
    variableValues,    \* useState, line 68: placeholder name -> value
    variables,         \* useMemo, line 156: the value computed for the
                       \* selectedTemplate of the last render
    listFetch,         \* the two mount fetches: name -> "pending" | "done"
    pending,           \* fetchProcessosByCliente calls in flight: a bag of
                       \* cliente ids (the calls resolve in any order)
    mounted,           \* FALSE once a render has thrown (component unmounted)
    fx,                \* side effect emitted by the last step (toast, window.open)
    last               \* the handler that ran last, its argument, and the
                       \* selection and recipient bindings it started from

vars == <<server, clientes, templates, processos, selectedCliente,
          selectedTemplate, variableValues, variables, listFetch, pending,
          mounted, fx, last>>

---------------------------------------------------------------------------
(* Bounds of the model *)

\* fetchProcessosByCliente calls that may be in flight at once
MaxPending == 2
\* length of the template bodies enumerated by SpecText
MaxLen == 6

---------------------------------------------------------------------------
(* Nullable values *)

Null == <<>>
Some(x) == <<x>>
IsNull(n) == n = <<>>
Val(n) == n[1]

---------------------------------------------------------------------------
(* Strings *)

Digits == {"0", "1", "2", "3", "4", "5", "6", "7", "8", "9"}
DigitChar(n) == <<"0", "1", "2", "3", "4", "5", "6", "7", "8", "9">>[n + 1]

\* characters the regular expression "." does not match
LineTerminators == {"\n", "\r"}

StartsWithAt(s, sub, i) ==
    /\ i + Len(sub) - 1 <= Len(s)
    /\ SubSeq(s, i, i + Len(sub) - 1) = sub

\* String.prototype.includes
includes(s, sub) == \E i \in 1..(Len(s) + 1) : StartsWithAt(s, sub, i)

\* `[${key}]`
Marker(key) == <<"[">> \o key \o <<"]">>

\* v.slice(1, -1)
slice1(v) == SubSeq(v, 2, Len(v) - 1)

RECURSIVE CloseAt(_, _)
\* (.*?)\] tried from position q: the first "]" at or after q that is
\* reached without crossing a line terminator; 0 when there is none
CloseAt(s, q) ==
    IF q > Len(s) THEN 0
    ELSE IF s[q] = "]" THEN q
    ELSE IF s[q] \in LineTerminators THEN 0
    ELSE CloseAt(s, q + 1)

RECURSIVE matchFrom(_, _)
\* content.match(/\[(.*?)\]/g) continued from lastIndex i
matchFrom(s, i) ==
    IF i > Len(s) THEN <<>>
    ELSE IF s[i] = "[" /\ CloseAt(s, i + 1) # 0
         THEN <<SubSeq(s, i, CloseAt(s, i + 1))>> \o matchFrom(s, CloseAt(s, i + 1) + 1)
         ELSE matchFrom(s, i + 1)

\* content.match(/\[(.*?)\]/g) || []
matchAll(s) == matchFrom(s, 1)

\* a parse that keeps every match, repeated or not
uniqKeepsAll(seq) == seq

RECURSIVE uniq(_)
\* [...new Set(matches)]: insertion order, first occurrence kept
uniq(seq) ==
    IF seq = <<>> THEN <<>>
    ELSE LET init == uniq(SubSeq(seq, 1, Len(seq) - 1))
             x == seq[Len(seq)]
         IN IF \E i \in 1..Len(init) : init[i] = x THEN init ELSE Append(init, x)

RECURSIVE mapSlice(_)
mapSlice(seq) ==
    IF seq = <<>> THEN <<>> ELSE <<slice1(Head(seq))>> \o mapSlice(Tail(seq))

\* lines 158-160, for the content of a template
parse(content) == mapSlice(uniq(matchAll(content)))

Range(seq) == {seq[i] : i \in 1..Len(seq)}

\* new RegExp(`\\[${key}\\]`, "g") throws SyntaxError: the key is not escaped,
\* and a "[" in it opens a character class that nothing closes (a key holds
\* no "]", and the "\]" the pattern ends with is escaped).  Every other
\* character of the keys of this model (letters, digits, "_") is literal.
RegExpThrows(key) == \E i \in 1..Len(key) : key[i] = "["

RECURSIVE GetSubstitution(_, _, _, _)
\* the replacement text for one match (ECMAScript GetSubstitution, no groups)
GetSubstitution(matched, str, position, repl) ==
    IF repl = <<>> THEN <<>>
    ELSE IF repl[1] = "$" /\ Len(repl) >= 2 /\ repl[2] \in {"$", "&", "`", "'"}
         THEN (CASE repl[2] = "$" -> <<"$">>
                 [] repl[2] = "&" -> matched
                 [] repl[2] = "`" -> SubSeq(str, 1, position - 1)
                 [] repl[2] = "'" -> SubSeq(str, position + Len(matched), Len(str)))
              \o GetSubstitution(matched, str, position, SubSeq(repl, 3, Len(repl)))
         ELSE <<repl[1]>> \o GetSubstitution(matched, str, position, Tail(repl))

RECURSIVE replaceFrom(_, _, _, _)
\* message.replace(new RegExp(`\\[${key}\\]`, "g"), repl) for a literal key
replaceFrom(s, i, pat, repl) ==
    IF i > Len(s) THEN <<>>
    ELSE IF StartsWithAt(s, pat, i)
         THEN GetSubstitution(pat, s, i, repl) \o replaceFrom(s, i + Len(pat), pat, repl)
         ELSE <<s[i]>> \o replaceFrom(s, i + 1, pat, repl)

\* variableValues[key]: undefined is rendered as the empty (falsy) string
valueOf(values, key) == IF key \in DOMAIN values THEN values[key] ELSE <<>>

\* lines 176-180: one iteration of variables.forEach
replaceKey(message, key, values) ==
    replaceFrom(message, 1, Marker(key),
                IF valueOf(values, key) # <<>> THEN valueOf(values, key) ELSE Marker(key))

RECURSIVE renderKeys(_, _, _)
renderKeys(message, keys, values) ==
    IF keys = <<>> THEN message
    ELSE renderKeys(replaceKey(message, Head(keys), values), Tail(keys), values)

\* a normalisation that removes nothing
stripNothing(s) == s

RECURSIVE stripNonDigits(_)
\* .replace(/\D/g, "")
stripNonDigits(s) ==
    IF s = <<>> THEN <<>>
    ELSE (IF Head(s) \in Digits THEN <<Head(s)>> ELSE <<>>) \o stripNonDigits(Tail(s))

Pad2(n) == <<DigitChar(n \div 10), DigitChar(n % 10)>>
Pad4(n) == <<DigitChar(n \div 1000), DigitChar((n \div 100) % 10),
             DigitChar((n \div 10) % 10), DigitChar(n % 10)>>

\* format(date, "dd/MM/yyyy", { locale: ptBR })
format(date) == Pad2(date.d) \o <<"/">> \o Pad2(date.m) \o <<"/">> \o Pad4(date.y)


\* encodeURIComponent: A-Z a-z 0-9 - _ . ! ~ * ' ( ) are kept, every other
\* character is percent-encoded (the table covers the characters of the model)
Unreserved ==
    Digits \cup
    {"a", "b", "c", "d", "e", "f", "g", "h", "i", "j", "k", "l", "m", "n", "o",
     "p", "q", "r", "s", "t", "u", "v", "w", "x", "y", "z",
     "A", "B", "C", "D", "E", "F", "G", "H", "I", "J", "K", "L", "M", "N", "O",
     "P", "Q", "R", "S", "T", "U", "V", "W", "X", "Y", "Z",
     "-", "_", ".", "!", "~", "*", "'", "(", ")"}

PercentCode(c) ==
    CASE c = " " -> <<"%", "2", "0">>
      [] c = "[" -> <<"%", "5", "B">>
      [] c = "]" -> <<"%", "5", "D">>
      [] c = "/" -> <<"%", "2", "F">>
      [] c = "," -> <<"%", "2", "C">>
      [] c = ":" -> <<"%", "3", "A">>
      [] c = "$" -> <<"%", "2", "4">>
      [] c = "\n" -> <<"%", "0", "A">>
      [] c = "\r" -> <<"%", "0", "D">>

RECURSIVE encodeURIComponent(_)
encodeURIComponent(s) ==
    IF s = <<>> THEN <<>>
    ELSE (IF Head(s) \in Unreserved THEN <<Head(s)>> ELSE PercentCode(Head(s)))
         \o encodeURIComponent(Tail(s))

---------------------------------------------------------------------------
(* Placeholder names the page treats specially (lines 80, 81, 164, 280-331) *)

nome_cliente == <<"n","o","m","e","_","c","l","i","e","n","t","e">>
numero_processo == <<"n","u","m","e","r","o","_","p","r","o","c","e","s","s","o">>
status_processo == <<"s","t","a","t","u","s","_","p","r","o","c","e","s","s","o">>
data_audiencia == <<"d","a","t","a","_","a","u","d","i","e","n","c","i","a">>
data_vencimento == <<"d","a","t","a","_","v","e","n","c","i","m","e","n","t","o">>

\* lines 321-323 (the accent of the third label is dropped)
StatusLabels ==
    { <<"E","m"," ","A","n","d","a","m","e","n","t","o">>,
      <<"A","g","u","a","r","d","a","n","d","o">>,
      <<"C","o","n","c","l","u","i","d","o">>}

---------------------------------------------------------------------------
(* The backing store *)

Maria == <<"M","a","r","i","a">>
Joao == <<"J","o","a","o">>
Zeca == <<"Z","e","c","a">>
FoneMaria == <<"(","1","1",")"," ","9","1","2","3","4","-","5","6","7","8">>
FoneZeca == <<"s","/","n">>
Num123 == <<"1","2","3","/","2","0","2","4">>
Num456 == <<"4","5","6","/","2","0","2","4">>
obs == <<"o","b","s">>

Body1 ==
    <<"O","l","a"," ","[","n","o","m","e","_","c","l","i","e","n","t","e","]",","," ",
      "p","r","o","c","e","s","s","o"," ",
      "[","n","u","m","e","r","o","_","p","r","o","c","e","s","s","o","]",".">>
Body2 ==
    <<"S","t","a","t","u","s",":"," ",
      "[","s","t","a","t","u","s","_","p","r","o","c","e","s","s","o","]"," ",
      "(","[","o","b","s","]",")">>
Body3 ==
    <<"D","i","a"," ","[","d","a","t","a","_","a","u","d","i","e","n","c","i","a","]",".","\n",
      "[","o","b","s","]"," ","[","o","b","s","]">>

\* clientes ordered by nome (line 101); Joao has no telefone, Zeca one
\* without a digit
DbClientes ==
    << [id |-> "c2", nome |-> Joao, telefone |-> Null],
       [id |-> "c1", nome |-> Maria, telefone |-> Some(FoneMaria)],
       [id |-> "c3", nome |-> Zeca, telefone |-> Some(FoneZeca)] >>

\* processos ordered by numero (line 142); Joao and Maria each own a
\* processo numbered 123/2024, Zeca owns none
DbProcessos ==
    << [id |-> "p1", numero |-> Num123, assunto |-> <<"A">>, status |-> <<"S">>, cliente_id |-> "c1"],
       [id |-> "p3", numero |-> Num123, assunto |-> <<"C">>, status |-> <<"S">>, cliente_id |-> "c2"],
       [id |-> "p2", numero |-> Num456, assunto |-> <<"B">>, status |-> <<"S">>, cliente_id |-> "c1"] >>

DbTemplates ==
    << [id |-> "t1", title |-> "Processo", content |-> Body1],
       [id |-> "t2", title |-> "Andamento", content |-> Body2],
       [id |-> "t3", title |-> "Audiencia", content |-> Body3] >>

Db == [clientes |-> DbClientes, templates |-> DbTemplates, processos |-> DbProcessos]

\* template bodies of SpecText: every string of at most MaxLen characters
Alphabet == {"[", "]", "a", "b"}
RECURSIVE StringsOfLen(_)
StringsOfLen(n) ==
    IF n = 0 THEN {<<>>}
    ELSE {Append(s, c) : s \in StringsOfLen(n - 1), c \in Alphabet}
Bodies == UNION {StringsOfLen(n) : n \in 0..MaxLen}

\* a store with one cliente, who owns no processo, and one template
TextDb(body) ==
    [clientes |-> <<[id |-> "c1", nome |-> Maria, telefone |-> Some(FoneMaria)]>>,
     templates |-> <<[id |-> "t1", title |-> "Modelo", content |-> body]>>,
     processos |-> <<>>]

\* the parse of the three bodies of Db, computed once
ParsedDb == [body \in {Body1, Body2, Body3} |-> parse(body)]

\* lines 157-160, for a nullable template
variablesOf(tpl) ==
    IF IsNull(tpl) THEN <<>>
    ELSE IF Val(tpl).content \in DOMAIN ParsedDb THEN ParsedDb[Val(tpl).content]
    ELSE parse(Val(tpl).content)

\* lines 173-182, for a nullable template and its parsed placeholders
render(tpl, keys, values) ==
    IF IsNull(tpl) THEN <<>> ELSE renderKeys(Val(tpl).content, keys, values)

---------------------------------------------------------------------------
(* Helpers on the state *)

\* list.find((x) => x.id === id) || null
find(list, id) ==
    IF \E i \in 1..Len(list) : list[i].id = id
    THEN Some(list[CHOOSE i \in 1..Len(list) :
                      /\ list[i].id = id
                      /\ \A j \in 1..(i - 1) : list[j].id # id])
    ELSE Null

\* { ...prev, [key]: value }
spread(prev, key, value) ==
    [k \in DOMAIN prev \cup {key} |-> IF k = key THEN value ELSE prev[k]]

\* delete newValues[key] for each key of keys
without(prev, keys) == [k \in DOMAIN prev \ keys |-> prev[k]]

\* the empty object {}
EmptyValues == [k \in {} |-> <<>>]

\* lines 140-142: the rows of one cliente, in the order of the table
rowsOf(clienteId) == SelectSeq(server.processos, LAMBDA p : p.cliente_id = clienteId)

generatedMessage == render(selectedTemplate, variables, variableValues)

NoFx == [kind |-> "none", description |-> "", url |-> <<>>]
Toast(d) == [kind |-> "toast", description |-> d, url |-> <<>>]
Open(u) == [kind |-> "open", description |-> "", url |-> u]

idOf(n) == IF IsNull(n) THEN Null ELSE Some(Val(n).id)
bound(values, key) == IF key \in DOMAIN values THEN Some(values[key]) ELSE Null

\* what an event started from: the selection (ids) and the two bindings that
\* belong to the recipient
Before == [cliente |-> idOf(selectedCliente),
           template |-> idOf(selectedTemplate),
           nome |-> bound(variableValues, nome_cliente),
           numero |-> bound(variableValues, numero_processo)]
Ran(op, arg) == [op |-> op, arg |-> arg, before |-> Before]

\* the effect with selectedCliente missing from its dependency list
nameEffectOnTemplateOnly(cliente, tpl, keys, values) ==
    IF /\ tpl # selectedTemplate
       /\ ~IsNull(cliente)
       /\ nome_cliente \in Range(keys)
    THEN spread(values, nome_cliente, Val(cliente).nome)
    ELSE values

\* lines 163-170, run after the render that follows an event: React runs the
\* effect only when selectedCliente or variables changed identity, and
\* variables (useMemo, line 161) is computed anew exactly when
\* selectedTemplate changed identity.  cliente, tpl and keys are the values
\* of the new render, values the bindings the handler left.
nameEffect(cliente, tpl, keys, values) ==
    IF /\ (cliente # selectedCliente \/ tpl # selectedTemplate)
       /\ ~IsNull(cliente)
       /\ nome_cliente \in Range(keys)
    THEN spread(values, nome_cliente, Val(cliente).nome)
    ELSE values

\* the state an event leaves: the render that follows it throws when a
\* placeholder of the new template makes an invalid pattern, and then no
\* effect runs and the component is unmounted
commit(cliente, tpl, values) ==
    LET keys == IF tpl = selectedTemplate THEN variables ELSE variablesOf(tpl)
        throws == \E i \in 1..Len(keys) : RegExpThrows(keys[i])
    IN /\ selectedCliente' = cliente
       /\ selectedTemplate' = tpl
       /\ variables' = keys
       /\ mounted' = ~throws
       /\ variableValues' = IF throws THEN values
                            ELSE nameEffect(cliente, tpl, keys, values)

---------------------------------------------------------------------------
(* Initial states *)

InitPage ==
    /\ clientes = <<>>
    /\ templates = <<>>
    /\ processos = <<>>
    /\ selectedCliente = Null
    /\ selectedTemplate = Null
    /\ variableValues = EmptyValues
    /\ variables = <<>>
    /\ listFetch = [clientes |-> "pending", templates |-> "pending"]
    /\ pending = EmptyBag
    /\ mounted = TRUE
    /\ fx = NoFx
    /\ last = Ran("mount", "")

Init == server = Db /\ InitPage

\* the page over a store of SpecText, once both lists are loaded, the
\* cliente is selected and the fetch of her (zero) processos has resolved
InitText ==
    /\ server \in {TextDb(b) : b \in Bodies}
    /\ clientes = server.clientes
    /\ templates = server.templates
    /\ processos = <<>>
    /\ selectedCliente = Some(server.clientes[1])
    /\ selectedTemplate = Null
    /\ variableValues = EmptyValues
    /\ variables = <<>>
    /\ listFetch = [clientes |-> "done", templates |-> "done"]
    /\ pending = EmptyBag
    /\ mounted = TRUE
    /\ fx = NoFx
    /\ last = [op |-> "fetchProcessosByCliente", arg |-> "c1",
               before |-> [cliente |-> Some("c1"), template |-> Null,
                           nome |-> Null, numero |-> Null]]

---------------------------------------------------------------------------
(* Events *)

\* lines 96-114: the mount fetch of clientes resolves
fetchClientes ==
    /\ mounted
    /\ listFetch.clientes = "pending"
    /\ listFetch' = [listFetch EXCEPT !.clientes = "done"]
    /\ \E error \in BOOLEAN :
          IF error
          THEN /\ fx' = Toast("Nao foi possivel carregar a lista de clientes.")
               /\ clientes' = clientes
          ELSE /\ fx' = NoFx
               /\ clientes' = server.clientes
    /\ last' = Ran("fetchClientes", "")
    /\ UNCHANGED <<server, templates, processos, selectedCliente,
                   selectedTemplate, variableValues, variables, pending, mounted>>

\* lines 116-135: the mount fetch of templates resolves
fetchTemplates ==
    /\ mounted
    /\ listFetch.templates = "pending"
    /\ listFetch' = [listFetch EXCEPT !.templates = "done"]
    /\ \E error \in BOOLEAN :
          IF error
          THEN /\ fx' = Toast("Nao foi possivel carregar os modelos.")
               /\ templates' = templates
          ELSE /\ fx' = NoFx
               /\ templates' = server.templates
    /\ last' = Ran("fetchTemplates", "")
    /\ UNCHANGED <<server, clientes, processos, selectedCliente,
                   selectedTemplate, variableValues, variables, pending, mounted>>

\* a recipient switch that forgets line 80
handleSelectClienteKeepsNumero(clienteId) ==
    LET cliente == find(clientes, clienteId)
    IN /\ mounted
       /\ BagCardinality(pending) < MaxPending
       /\ processos' = <<>>
       /\ commit(cliente, selectedTemplate, without(variableValues, {status_processo}))
       /\ pending' = IF ~IsNull(cliente) THEN pending (+) SetToBag({Val(cliente).id})
                     ELSE pending
       /\ fx' = NoFx
       /\ last' = Ran("handleSelectCliente", clienteId)
       /\ UNCHANGED <<server, clientes, templates, listFetch>>

\* a recipient switch that clears the whole store, as a template switch does
handleSelectClienteClearsAll(clienteId) ==
    LET cliente == find(clientes, clienteId)
    IN /\ mounted
       /\ BagCardinality(pending) < MaxPending
       /\ processos' = <<>>
       /\ commit(cliente, selectedTemplate, EmptyValues)
       /\ pending' = IF ~IsNull(cliente) THEN pending (+) SetToBag({Val(cliente).id})
                     ELSE pending
       /\ fx' = NoFx
       /\ last' = Ran("handleSelectCliente", clienteId)
       /\ UNCHANGED <<server, clientes, templates, listFetch>>

\* lines 72-88, with the render and effect that follow
handleSelectCliente(clienteId) ==
    LET cliente == find(clientes, clienteId)
    IN /\ mounted
       /\ BagCardinality(pending) < MaxPending
       /\ processos' = <<>>
       /\ commit(cliente, selectedTemplate,
                 without(variableValues, {numero_processo, status_processo}))
       /\ pending' = IF ~IsNull(cliente) THEN pending (+) SetToBag({Val(cliente).id})
                     ELSE pending
       /\ fx' = NoFx
       /\ last' = Ran("handleSelectCliente", clienteId)
       /\ UNCHANGED <<server, clientes, templates, listFetch>>

\* a template switch that forgets line 93
handleSelectTemplateKeepsValues(templateId) ==
    LET template == find(templates, templateId)
    IN /\ mounted
       /\ commit(selectedCliente, template, variableValues)
       /\ fx' = NoFx
       /\ last' = Ran("handleSelectTemplate", templateId)
       /\ UNCHANGED <<server, clientes, templates, processos, listFetch, pending>>

\* lines 90-94, with the render and effect that follow
handleSelectTemplate(templateId) ==
    LET template == find(templates, templateId)
    IN /\ mounted
       /\ commit(selectedCliente, template, EmptyValues)
       /\ fx' = NoFx
       /\ last' = Ran("handleSelectTemplate", templateId)
       /\ UNCHANGED <<server, clientes, templates, processos, listFetch, pending>>

\* lines 137-154: a call in flight for clienteId resolves
fetchProcessosByCliente(clienteId) ==
    /\ mounted
    /\ BagIn(clienteId, pending)
    /\ pending' = pending (-) SetToBag({clienteId})
    /\ \E error \in BOOLEAN :
          IF error
          THEN /\ fx' = Toast("Nao foi possivel carregar os processos do cliente.")
               /\ processos' = processos
          ELSE /\ fx' = NoFx
               /\ processos' = rowsOf(clienteId)
    /\ last' = Ran("fetchProcessosByCliente", clienteId)
    /\ UNCHANGED <<server, clientes, templates, selectedCliente,
                   selectedTemplate, variableValues, variables, listFetch, mounted>>

\* lines 185-187
handleVariableChange(varName, value) ==
    /\ mounted
    /\ variableValues' = spread(variableValues, varName, value)
    /\ fx' = NoFx
    /\ last' = Ran("handleVariableChange", varName)
    /\ UNCHANGED <<server, clientes, templates, processos, selectedCliente,
                   selectedTemplate, variables, listFetch, pending, mounted>>

\* a send without the telefone check of lines 211-218
handleSendWhatsappAnyPhone ==
    LET phone == stripNonDigits(IF IsNull(Val(selectedCliente).telefone) THEN <<>>
                                ELSE Val(Val(selectedCliente).telefone))
        keys == variables
        message == generatedMessage
    IN /\ mounted
       /\ fx' = IF IsNull(selectedCliente)
                THEN Toast("Selecione um cliente.")
                ELSE IF \/ message = <<>>
                        \/ \E i \in 1..Len(keys) : includes(message, Marker(keys[i]))
                THEN Toast("Preencha todas as variaveis da mensagem.")
                ELSE Open(<<"h","t","t","p","s",":","/","/","w","a",".","m","e","/","5","5">>
                          \o phone \o <<"?","t","e","x","t","=">>
                          \o encodeURIComponent(message))
       /\ last' = Ran("handleSendWhatsapp", "")
       /\ UNCHANGED <<server, clientes, templates, processos, selectedCliente,
                      selectedTemplate, variableValues, variables, listFetch,
                      pending, mounted>>

\* lines 189-223
handleSendWhatsapp ==
    LET phone == stripNonDigits(IF IsNull(Val(selectedCliente).telefone) THEN <<>>
                                ELSE Val(Val(selectedCliente).telefone))
        keys == variables
        message == generatedMessage
    IN /\ mounted
       /\ fx' = IF IsNull(selectedCliente)
                THEN Toast("Selecione um cliente.")
                ELSE IF \/ message = <<>>
                        \/ \E i \in 1..Len(keys) : includes(message, Marker(keys[i]))
                THEN Toast("Preencha todas as variaveis da mensagem.")
                ELSE IF phone = <<>>
                THEN Toast("Cliente sem telefone valido.")
                ELSE Open(<<"h","t","t","p","s",":","/","/","w","a",".","m","e","/","5","5">>
                          \o phone \o <<"?","t","e","x","t","=">>
                          \o encodeURIComponent(message))
       /\ last' = Ran("handleSendWhatsapp", "")
       /\ UNCHANGED <<server, clientes, templates, processos, selectedCliente,
                      selectedTemplate, variableValues, variables, listFetch,
                      pending, mounted>>

---------------------------------------------------------------------------
(* The controls of the page *)

\* values the operator types into a free-text Input: nothing, a word, and
\* the marker text of the last placeholder of the active template
Typed(keys) == {<<>>, <<"x">>, Marker(keys[Len(keys)])}

\* days the operator picks in a Calendar
Dates == {[d |-> 5, m |-> 3, y |-> 2025], [d |-> 12, m |-> 11, y |-> 2025]}

\* lines 278-388: the values the control rendered for varName can send
inputsOf(varName, keys) ==
    IF varName = numero_processo
    THEN (IF IsNull(selectedCliente) \/ Len(processos) = 0 THEN {}
          ELSE {processos[i].numero : i \in 1..Len(processos)})
    ELSE IF varName = status_processo THEN StatusLabels
    ELSE IF varName \in {data_audiencia, data_vencimento}
    THEN {format(date) : date \in Dates}
    ELSE Typed(keys)

\* line 236 and lines 241-245
SelectCliente == \E i \in 1..Len(clientes) : handleSelectCliente(clientes[i].id)

\* a template Select that is never disabled
SelectTemplateAlwaysEnabled ==
    \E i \in 1..Len(templates) : handleSelectTemplate(templates[i].id)

\* lines 249-262
SelectTemplate ==
    /\ ~IsNull(selectedCliente)
    /\ \E i \in 1..Len(templates) : handleSelectTemplate(templates[i].id)

\* line 267 and lines 277-388
FieldEdit ==
    /\ ~IsNull(selectedTemplate)
    /\ LET keys == variables
       IN \E i \in 1..Len(keys) :
             \E value \in inputsOf(keys[i], keys) :
                handleVariableChange(keys[i], value)

\* line 267 and line 410
ClickSend == ~IsNull(selectedTemplate) /\ handleSendWhatsapp

ResolveProcessos == \E id \in BagToSet(pending) : fetchProcessosByCliente(id)

Next ==
    \/ fetchClientes
    \/ fetchTemplates
    \/ SelectCliente
    \/ SelectTemplate
    \/ FieldEdit
    \/ ClickSend
    \/ ResolveProcessos

Spec == Init /\ [][Next]_vars

\* every call in flight resolves: the request of line 138 returns data or an
\* error, and the continuation of the await is then run
SpecFair == Init /\ [][Next]_vars /\ WF_vars(ResolveProcessos)

\* handleVariableChange called with a name no control of the page sends
StrayNames == {nome_cliente, obs}
StrayVariableChange ==
    \E name \in StrayNames \ Range(variables) :
       handleVariableChange(name, <<"x">>)

NextHandlers == Next \/ StrayVariableChange

\* the page, and its handlers called directly
SpecHandlers == Init /\ [][NextHandlers]_vars

\* the template, field and send events alone, over every short template body
NextText == SelectTemplate \/ FieldEdit \/ ClickSend

SpecText == InitText /\ [][NextText]_vars


---------------------------------------------------------------------------
(* Properties *)

Did(op) == last.op = op
Changed == last.before.cliente # idOf(selectedCliente)
content == Val(selectedTemplate).content

\* every placeholder of the active template has a non-empty bound value
AllBound == \A k \in Range(variables) : valueOf(variableValues, k) # <<>>

\* lines 198-201: the completeness test of the send handler
CompleteByTest ==
    /\ generatedMessage # <<>>
    /\ \A k \in Range(variables) : ~includes(generatedMessage, Marker(k))

HasDigit(s) == \E i \in 1..Len(s) : s[i] \in Digits

\* C1: a candidate list that is not empty holds only records of the
\* recipient that is selected now (a fetch started for an earlier recipient
\* never fills the list of a later one).
StaleFetchGuard ==
    \A i \in 1..Len(processos) :
       /\ ~IsNull(selectedCliente)
       /\ processos[i].cliente_id = Val(selectedCliente).id

\* C2: a send opens the dispatch link only when a recipient is selected,
\* every placeholder is bound to a non-empty value, no marker is left in
\* the message and the telefone holds a digit; otherwise it rejects with a
\* toast; and it never changes recipient, template, bindings or candidates.
DispatchGating ==
    [][last'.op = "handleSendWhatsapp" =>
         /\ UNCHANGED <<selectedCliente, selectedTemplate, variableValues, processos>>
         /\ fx'.kind \in {"open", "toast"}
         /\ fx'.kind = "open" =>
               /\ ~IsNull(selectedCliente)
               /\ AllBound
               /\ \A k \in Range(variables) : ~includes(generatedMessage, Marker(k))
               /\ ~IsNull(Val(selectedCliente).telefone)
               /\ HasDigit(Val(Val(selectedCliente).telefone))]_vars

\* C2 witness: a send that opened the link
DispatchOpened == Did("handleSendWhatsapp") /\ fx.kind = "open"

\* C3: right after handleSelectCliente, numero_processo is unbound.
SwitchDiscardsNumero ==
    Did("handleSelectCliente") => numero_processo \notin DOMAIN variableValues

\* C3 witness: numero_processo was bound under another recipient, and the
\* new recipient owns a processo with that same numero
SwitchedFromSharedNumero ==
    /\ Did("handleSelectCliente")
    /\ Changed
    /\ ~IsNull(selectedCliente)
    /\ ~IsNull(last.before.numero)
    /\ \E i \in 1..Len(server.processos) :
          /\ server.processos[i].cliente_id = Val(selectedCliente).id
          /\ server.processos[i].numero = Val(last.before.numero)
    /\ numero_processo \notin DOMAIN variableValues

\* the bindings outside keys are the same before and after the step
Preserved(keys) ==
    \A k \in DOMAIN variableValues \ keys :
       /\ k \in DOMAIN variableValues'
       /\ variableValues'[k] = variableValues[k]

\* C4 as stated: handleSelectCliente changes no binding other than
\* numero_processo and nome_cliente.
SwitchKeepsAllButRelational ==
    [][last'.op = "handleSelectCliente" =>
         Preserved({numero_processo, nome_cliente})]_vars

\* C4 amended: handleSelectCliente changes no binding other than
\* numero_processo, status_processo and nome_cliente, and binds no name
\* other than nome_cliente.
SwitchKeepsAllButProcessoAndNome ==
    [][last'.op = "handleSelectCliente" =>
         /\ Preserved({numero_processo, status_processo, nome_cliente})
         /\ DOMAIN variableValues' \subseteq DOMAIN variableValues \cup {nome_cliente}]_vars

\* C4 witness: a date and a typed text are still bound after a switch to
\* another recipient
SwitchedWithDateAndText ==
    /\ Did("handleSelectCliente")
    /\ Changed
    /\ data_audiencia \in DOMAIN variableValues
    /\ valueOf(variableValues, obs) = <<"x">>

\* C5: after handleSelectTemplate the store is exactly the seeded
\* nome_cliente binding when a recipient is selected and the template has
\* that placeholder, and empty otherwise.
TemplateChangeReseeds ==
    (Did("handleSelectTemplate") /\ mounted) =>
        variableValues =
           IF ~IsNull(selectedCliente) /\ nome_cliente \in Range(variables)
           THEN [k \in {nome_cliente} |-> Val(selectedCliente).nome]
           ELSE EmptyValues

\* C6: after handleSelectCliente selected another recipient, with a template
\* that has the nome_cliente placeholder, nome_cliente is bound to the name
\* of the new recipient.
SwitchSeedsName ==
    (Did("handleSelectCliente") /\ Changed /\ nome_cliente \in Range(variables)) =>
        /\ ~IsNull(selectedCliente)
        /\ bound(variableValues, nome_cliente) = Some(Val(selectedCliente).nome)

\* C6 witness: the switch overwrote a value the operator had typed
SwitchOverwroteTypedName ==
    /\ Did("handleSelectCliente")
    /\ Changed
    /\ last.before.nome = Some(<<"x">>)
    /\ bound(variableValues, nome_cliente) = Some(Val(selectedCliente).nome)

\* C7: the completeness test of the send handler is true exactly when every
\* placeholder has a non-empty bound value.
CompletenessEquivalence ==
    (~IsNull(selectedTemplate) /\ mounted) => (CompleteByTest <=> AllBound)

RECURSIVE substituteFrom(_, _, _, _)
\* the body with the marker of each key replaced, in one pass over the body,
\* by the bound value of the key, or left as it is when the value is empty
substituteFrom(body, i, keys, values) ==
    IF i > Len(body) THEN <<>>
    ELSE IF \E k \in keys : StartsWithAt(body, Marker(k), i)
         THEN LET k == CHOOSE k \in keys : StartsWithAt(body, Marker(k), i)
              IN (IF valueOf(values, k) # <<>> THEN valueOf(values, k) ELSE Marker(k))
                 \o substituteFrom(body, i + Len(Marker(k)), keys, values)
         ELSE <<body[i]>> \o substituteFrom(body, i + 1, keys, values)

\* C8: the rendered message is the template body with every marker replaced
\* by the bound value of its name, or left as it is when that value is
\* absent or empty; with no template it is the empty string.
RendererSubstitution ==
    mounted =>
       generatedMessage =
          IF IsNull(selectedTemplate) THEN <<>>
          ELSE substituteFrom(content, 1, Range(variables), variableValues)

\* first index (1-based) at which sub occurs in s, 0 when it does not
IndexOf(s, sub) ==
    IF includes(s, sub)
    THEN CHOOSE i \in 1..(Len(s) + 1) :
            /\ StartsWithAt(s, sub, i)
            /\ \A j \in 1..(i - 1) : ~StartsWithAt(s, sub, j)
    ELSE 0

\* a marker of the body whose name holds no bracket
SimpleMarkerAt(body, i, j) ==
    /\ body[i] = "[" /\ body[j] = "]"
    /\ \A m \in (i + 1)..(j - 1) : body[m] \notin {"[", "]"} \cup LineTerminators

\* a "[" inside a marker: a "[", then another with no "]" between, then a "]"
Nested(body) ==
    \E i, j, m \in 1..Len(body) :
       /\ i < j /\ j < m
       /\ body[i] = "[" /\ body[j] = "[" /\ body[m] = "]"
       /\ \A n \in i..j : body[n] \notin {"]"} \cup LineTerminators
       /\ \A n \in j..m : body[n] \notin LineTerminators

StrayNameIsNoOp ==
    [][(last'.op = "handleVariableChange" /\ last'.arg \notin Range(variables))
          => variableValues' = variableValues]_vars

\* C11: a fetchProcessosByCliente call that resolves with an error leaves
\* the candidate list empty, and no resolution of a call, with or without an
\* error, changes a binding, the selected template or the selected recipient.
FetchFailureContained ==
    [][last'.op = "fetchProcessosByCliente" =>
         /\ UNCHANGED <<variableValues, selectedTemplate, selectedCliente>>
         /\ fx'.kind = "toast" => processos' = <<>>]_vars

\* the characters of s that are digits, in their order
digitsOf(s) == SelectSeq(s, LAMBDA c : c \in Digits)

\* the two parts of a dispatch link: what stands between "https://wa.me/"
\* and "?", and what follows "?text="
WaMe == <<"h","t","t","p","s",":","/","/","w","a",".","m","e","/">>
addressOf(url) == SubSeq(url, Len(WaMe) + 1, IndexOf(url, <<"?">>) - 1)
textOf(url) == SubSeq(url, IndexOf(url, <<"?">>) + Len(<<"?","t","e","x","t","=">>), Len(url))

\* the characters encodeURIComponent escapes in this model
Escaped == {" ", "[", "]", "/", ",", ":", "$", "\n", "\r"}

RECURSIVE percentDecode(_)
\* what the channel reads from the text parameter: each %XX is one character
percentDecode(s) ==
    IF s = <<>> THEN <<>>
    ELSE IF Head(s) = "%"
         THEN <<CHOOSE c \in Escaped : PercentCode(c) = SubSeq(s, 1, 3)>>
              \o percentDecode(SubSeq(s, 4, Len(s)))
         ELSE <<Head(s)>> \o percentDecode(Tail(s))

\* C12: the link a send opens addresses "55" followed by the digits of the
\* recipient's telefone, in their order and with nothing else (for
\* "(11) 91234-5678": "5511912345678"), and its text parameter decodes to
\* the rendered message.
AddressNormalization ==
    (Did("handleSendWhatsapp") /\ fx.kind = "open") =>
        /\ SubSeq(fx.url, 1, Len(WaMe)) = WaMe
        /\ addressOf(fx.url) = <<"5", "5">> \o digitsOf(Val(Val(selectedCliente).telefone))
        /\ Val(selectedCliente).telefone = Some(FoneMaria) =>
              addressOf(fx.url) = <<"5","5","1","1","9","1","2","3","4","5","6","7","8">>
        /\ SubSeq(fx.url, IndexOf(fx.url, <<"?">>), IndexOf(fx.url, <<"?">>) + 5)
              = <<"?","t","e","x","t","=">>
        /\ percentDecode(textOf(fx.url)) = generatedMessage

\* C12 witness: a link opened for a telefone written with punctuation, whose
\* message holds characters that are escaped in the link
DispatchedPunctuatedPhone ==
    /\ Did("handleSendWhatsapp")
    /\ fx.kind = "open"
    /\ Val(Val(selectedCliente).telefone) # digitsOf(Val(Val(selectedCliente).telefone))
    /\ textOf(fx.url) # generatedMessage
    /\ includes(generatedMessage, Num456)

RECURSIVE localFrom(_, _, _, _, _, _, _)
\* the body cut at the occurrences of the marker of p: each piece between
\* them rendered with the bindings values, each occurrence rendered as own
localFrom(body, i, start, p, keys, values, own) ==
    IF i > Len(body)
    THEN renderKeys(SubSeq(body, start, Len(body)), keys, values)
    ELSE IF StartsWithAt(body, Marker(p), i)
         THEN renderKeys(SubSeq(body, start, i - 1), keys, values) \o own
              \o localFrom(body, i + Len(Marker(p)), i + Len(Marker(p)), p, keys, values, own)
         ELSE localFrom(body, i + 1, start, p, keys, values, own)

\* C13: a change of the value of one placeholder p changes the rendered
\* message only where the marker of p stands in the body: what is rendered
\* for the text between those occurrences (literal text and the markers of
\* the other placeholders) is what it was before the change.
RenderLocality ==
    [][(/\ last'.op = "handleVariableChange"
        /\ ~IsNull(selectedTemplate)
        /\ last'.arg \in Range(variables))
          => render(selectedTemplate', variables', variableValues')
               = localFrom(content, 1, 1, last'.arg, variables, variableValues,
                           renderKeys(Marker(last'.arg), variables, variableValues'))]_vars

\* C14: a bound numero_processo is the numero of a processo of the recipient
\* that is selected now.
NumeroProvenance ==
    numero_processo \in DOMAIN variableValues =>
        /\ ~IsNull(selectedCliente)
        /\ \E i \in 1..Len(server.processos) :
              /\ server.processos[i].cliente_id = Val(selectedCliente).id
              /\ server.processos[i].numero = variableValues[numero_processo]

\* C15: once no fetchProcessosByCliente call is in flight, the candidate
\* list is the processos of the selected recipient (its call succeeded) or
\* empty (its call failed), whatever the order in which the calls resolved.
QuiescentConsistency ==
    (pending = EmptyBag /\ ~IsNull(selectedCliente)) =>
        \/ processos = rowsOf(Val(selectedCliente).id)
        \/ processos = <<>>

\* C16: every name bound in the store is a placeholder of the active
\* template, and with no template selected the store is empty.
BindingDomain ==
    /\ DOMAIN variableValues \subseteq Range(variablesOf(selectedTemplate))
    /\ IsNull(selectedTemplate) => variableValues = EmptyValues

\* C16 witness: nome_cliente was bound under a template, and the operator
\* switched to a template without that placeholder
SwitchedToTemplateWithoutName ==
    /\ Did("handleSelectTemplate")
    /\ ~IsNull(last.before.template)
    /\ ~IsNull(selectedTemplate)
    /\ last.before.template # idOf(selectedTemplate)
    /\ ~IsNull(last.before.nome)
    /\ nome_cliente \notin Range(variablesOf(selectedTemplate))
    /\ variableValues = EmptyValues

\* C17: a template is active only while a recipient is selected; a selected
\* recipient is never reset to none; and no send takes the "no recipient"
\* rejection.
TemplateNeedsCliente ==
    /\ [](~IsNull(selectedTemplate) => ~IsNull(selectedCliente))
    /\ [][/\ ~IsNull(selectedCliente) => ~IsNull(selectedCliente')
          /\ last'.op = "handleSendWhatsapp" => fx' # Toast("Selecione um cliente.")]_vars

\* C17 witness: with a recipient and a template selected, a send went past
\* the recipient test and was rejected by the completeness test
SendRejectedIncomplete ==
    /\ Did("handleSendWhatsapp")
    /\ fx = Toast("Preencha todas as variaveis da mensagem.")
    /\ ~IsNull(selectedTemplate)
    /\ ~IsNull(selectedCliente)

=============================================================================
